---- MODULE Spec2Model ----
(***************************************************************************)
(* HardwareStats (src/hardware/stats.py): the four guarded sub-queries and *)
(* the aggregation in get_stats, run by one or several caller threads on   *)
(* one collector instance.                                                 *)
(*                                                                         *)
(* Numbers.  A temperature is kept in tenths of a degree Celsius and a     *)
(* per-core usage in tenths of a percent, so the float 45.7 is 457 and     *)
(* both 0.0 and -0.0 (equal in Python) are 0.  What a sensor file holds    *)
(* and what the per-core sampler yields are kept in thousandths            *)
(* (millidegrees, milli-percent), so 45678 is the text "45678" and the     *)
(* float 45.678.                                                           *)
(***************************************************************************)
EXTENDS Integers, Sequences, FiniteSets, TLC

VARIABLES
    inst,        \* the attributes of the HardwareStats instance (self.__dict__)
    startupLog,  \* what __init__ logged
    pc,          \* per thread: where its get_stats call stands
    idx,         \* per thread: the candidate thermal path the loop is at
    obs,         \* per thread: what the call has read from the environment
    stats,       \* per thread: the sub-query results obtained so far
    log,         \* per thread: the log lines the call has written
    probes,      \* per thread: the os.path.exists calls made, in order
    reads,       \* per thread: the candidate paths opened, in order
    exc,         \* per thread: the exception that escaped a sub-query
    outcome      \* per thread: how the call ended, and the report returned

vars == <<inst, startupLog, pc, idx, obs, stats, log, probes, reads, exc, outcome>>

-----------------------------------------------------------------------------
(* Bounds *)

NumThreads == 2
MaxCores == 2

Threads == 1..NumThreads

-----------------------------------------------------------------------------
(* Values *)

NONE == [none |-> TRUE]
Ok(v) == [ok |-> TRUE, val |-> v]
Raise == [ok |-> FALSE]

UNKNOWN == "unknown"
thermal_paths == <<"/sys/class/thermal/thermal_zone0/temp",
                   "/sys/devices/virtual/thermal/thermal_zone0/temp">>

Warning(src) == [level |-> "warning", src |-> src]
Error(src) == [level |-> "error", src |-> src]
Info(src) == [level |-> "info", src |-> src]

-----------------------------------------------------------------------------
(* round(x, 1) of the double nearest to m/1000, in tenths.                 *)

RECURSIVE Pow2Mod1000(_)
Pow2Mod1000(k) == IF k = 0 THEN 1 ELSE (2 * Pow2Mod1000(k - 1)) % 1000

RECURSIVE ShiftUp(_, _)
\* the least j with m * 2^j >= 1000, for 0 < m < 1000
ShiftUp(m, j) == IF m >= 1000 THEN j ELSE ShiftUp(2 * m, j + 1)

RECURSIVE ShiftDown(_, _)
\* the greatest e with 1000 * 2^e <= m, for m >= 1000
ShiftDown(m, e) == IF m < 2000 THEN e ELSE ShiftDown(m \div 2, e + 1)

\* The binary exponent of m/1000 (m > 0): 2^e <= m/1000 < 2^(e+1).
Exponent(m) == IF m >= 1000 THEN ShiftDown(m, 0) ELSE 0 - ShiftUp(m, 0)

\* The sign of double(m/1000) - m/1000 for m > 0.  The 53-bit significand is
\* m * 2^k / 1000 rounded to an integer, k = 52 - Exponent(m); the remainder of
\* m * 2^k modulo 1000 says which way it was rounded (it is never 500: 8 divides
\* m * 2^k and does not divide 500 + 1000 n).
DoubleError(m) ==
    LET k == 52 - Exponent(m)
        rem == ((m % 1000) * Pow2Mod1000(k)) % 1000
    IN  IF rem = 0 THEN 0 ELSE IF rem < 500 THEN 0 - 1 ELSE 1

RoundPos(m) ==
    LET q == m \div 100
        r == m % 100
    IN  IF r < 50 THEN q
        ELSE IF r > 50 THEN q + 1
        ELSE IF DoubleError(m) > 0 THEN q + 1
        ELSE IF DoubleError(m) < 0 THEN q
        ELSE IF q % 2 = 0 THEN q ELSE q + 1

round1(m) == IF m = 0 THEN 0 ELSE IF m > 0 THEN RoundPos(m) ELSE 0 - RoundPos(0 - m)

-----------------------------------------------------------------------------
(* The sub-queries, as functions of what they read *)

\* What a sensor file holds: text that float() parses, or text it rejects.
Text(m) == [num |-> TRUE, milli |-> m]
Garbage == [num |-> FALSE]

unknown_os == [hostname |-> UNKNOWN, platform |-> UNKNOWN, arch |-> UNKNOWN]

\* os.getenv("PUBLIC_HOSTNAME", default): the variable's value when it is set.
getenv(override, default) == IF Len(override) > 0 THEN override[1] ELSE default

\* _get_os_info with one guard per field instead of one around the three.
get_os_info_per_field(o) ==
    [val |-> [hostname |-> IF o.host.ok THEN getenv(o.override, o.host.val) ELSE UNKNOWN,
              platform |-> IF o.system.ok THEN o.system.val ELSE UNKNOWN,
              arch |-> IF o.machine.ok THEN o.machine.val ELSE UNKNOWN],
     log |-> IF o.host.ok /\ o.system.ok /\ o.machine.ok THEN <<>> ELSE <<Error("os")>>]

\* _get_os_info.  socket.gethostname() is an argument of os.getenv, so it is
\* called (and may raise) before the variable is looked up.
get_os_info(o) ==
    IF o.host.ok /\ o.system.ok /\ o.machine.ok
    THEN [val |-> [hostname |-> getenv(o.override, o.host.val),
                   platform |-> o.system.val,
                   arch |-> o.machine.val],
          log |-> <<>>]
    ELSE [val |-> unknown_os, log |-> <<Error("os")>>]

\* The missing sensor reported at error level.
temp_not_found_as_error == [val |-> 0, log |-> <<Error("temp")>>]

\* _get_cpu_temperature, the loop falling through: no candidate path exists.
temp_not_found == [val |-> 0, log |-> <<Warning("temp")>>]

\* _get_cpu_temperature, the body of the with statement and the except clause:
\* f is what open/read gave for the candidate that exists.
temp_read(f) ==
    IF f.ok /\ f.val.num
    THEN [val |-> round1(f.val.milli), log |-> <<>>]
    ELSE [val |-> 0, log |-> <<Error("temp")>>]

\* A failed read going on to the next candidate path.
temp_retry_after_read(i, f) == IF f.ok /\ f.val.num THEN "cpu" ELSE "temp"

\* Where _get_cpu_temperature goes after it has opened candidate i: it returns
\* (the value read, or 0.0 from the except clause), whatever the read gave.
temp_after_read(i, f) == "cpu"

\* Where the loop goes after os.path.exists of candidate i.
temp_after_probe(i, exists) ==
    IF exists THEN "read"
    ELSE IF i < Len(thermal_paths) THEN "temp"
    ELSE "cpu"

\* _get_cpu_temperature as one call, on a sensor = [exists, file]: the outcome
\* of os.path.exists per candidate and of reading the one that exists.
RECURSIVE temp_scan(_, _)
temp_scan(i, sensor) ==
    IF i > Len(thermal_paths) THEN temp_not_found
    ELSE IF sensor.exists[i] THEN temp_read(sensor.file)
    ELSE temp_scan(i + 1, sensor)

get_cpu_temperature(sensor) == temp_scan(1, sensor)

\* _get_cpu_usage falling back to an empty list.
get_cpu_usage_empty(c) ==
    IF c.ok
    THEN [val |-> [k \in 1..Len(c.val) |-> round1(c.val[k])], log |-> <<>>]
    ELSE [val |-> <<>>, log |-> <<Error("cpu")>>]

\* _get_cpu_usage
get_cpu_usage(c) ==
    IF c.ok
    THEN [val |-> [k \in 1..Len(c.val) |-> round1(c.val[k])], log |-> <<>>]
    ELSE [val |-> <<0>>, log |-> <<Error("cpu")>>]

\* _get_memory_usage reporting what is left of the memory as used.
get_memory_usage_available(m) ==
    IF m.ok
    THEN [val |-> [used |-> m.val.total - m.val.used, total |-> m.val.total], log |-> <<>>]
    ELSE [val |-> [used |-> 0, total |-> 0], log |-> <<Error("mem")>>]

\* _get_memory_usage
get_memory_usage(m) ==
    IF m.ok
    THEN [val |-> [used |-> m.val.used, total |-> m.val.total], log |-> <<>>]
    ELSE [val |-> [used |-> 0, total |-> 0], log |-> <<Error("mem")>>]

\* The try block clearing success when the identity fell back.
get_stats_try_flagging(os, cpuTemp, cpuUsage, memoryUsage) ==
    [kind |-> "returned",
     report |-> [success |-> os # [hostname |-> UNKNOWN, platform |-> UNKNOWN, arch |-> UNKNOWN],
                 os |-> os, cpuTemp |-> cpuTemp,
                 cpuUsage |-> cpuUsage, memoryUsage |-> memoryUsage]]

\* get_stats, the try block completing.
get_stats_try(os, cpuTemp, cpuUsage, memoryUsage) ==
    [kind |-> "returned",
     report |-> [success |-> TRUE, os |-> os, cpuTemp |-> cpuTemp,
                 cpuUsage |-> cpuUsage, memoryUsage |-> memoryUsage]]

\* get_stats, the except clause, for an exception whose str() is msg.
get_stats_except(msg) ==
    [kind |-> "returned",
     report |-> [success |-> FALSE, error |-> msg, os |-> unknown_os,
                 cpuTemp |-> 0, cpuUsage |-> <<0>>,
                 memoryUsage |-> [used |-> 0, total |-> 0]]]

\* get_stats as one isolated call, on the environment o it reads; e is the
\* exception that escapes a sub-query, or NONE.
get_stats(o, e) ==
    IF e # NONE THEN get_stats_except(e.msg)
    ELSE get_stats_try(get_os_info(o.os).val,
                       get_cpu_temperature([exists |-> o.exists, file |-> o.file]).val,
                       get_cpu_usage(o.cpu).val,
                       get_memory_usage(o.mem).val)

\* _validate_system: the probe's outcome is only logged.
validate_system(probeOk) ==
    IF probeOk THEN <<Info("init"), Info("validated")>>
    ELSE <<Info("init"), Warning("validate")>>

\* The instance's attributes after __init__: it assigns none.
init_self == <<>>

\* get_stats keeping the last report on the instance.
self_caching_get_stats(s, r) == <<r>>

\* The instance's attributes after a get_stats call that returned r: the
\* method and the sub-queries assign no attribute of self.
self_after_get_stats(s, r) == s

-----------------------------------------------------------------------------
(* The environment a call may meet *)

SensorMilli == {0 - 50, 0 - 49, 0, 49, 50, 45678}
CpuMilli == {0, 23456, 100000}
Hostnames == {"raspberrypi"}
Overrides == {<<>>, <<"myhost">>}

SeqsUpTo(S, n) == UNION {[1..k -> S] : k \in 1..n}

Results(S) == {Ok(v) : v \in S} \cup {Raise}

OsReadings(O, H, S, M) == [override : O, host : H, system : S, machine : M]

MemReadings == {[used |-> 1, total |-> 4], [used |-> 4, total |-> 4]}

\* Every outcome of every source.
Wide ==
    [os |-> OsReadings(Overrides, Results(Hostnames), Results({"Linux"}),
                       Results({"aarch64"})),
     file |-> Results({Text(m) : m \in SensorMilli} \cup {Garbage}),
     cpu |-> Results(SeqsUpTo(CpuMilli, MaxCores)),
     mem |-> Results(MemReadings),
     msgs |-> {"", "boom"}]

\* A few outcomes of every source, for several threads at once.
Narrow ==
    [os |-> OsReadings(Overrides, {Ok("raspberrypi")}, {Ok("Linux")},
                       {Ok("aarch64")}),
     file |-> {Ok(Text(45678)), Ok(Garbage)},
     cpu |-> {Ok(<<23456>>)},
     mem |-> {Ok([used |-> 1, total |-> 4]), Raise},
     msgs |-> {"boom"}]

-----------------------------------------------------------------------------
(* State *)

NoObs == [os |-> NONE, exists |-> <<>>, file |-> NONE, cpu |-> NONE, mem |-> NONE]
NoStats == [k \in {} |-> NONE]
NoOutcome == [kind |-> "none"]

Init ==
    /\ inst = init_self
    /\ startupLog \in {validate_system(b) : b \in BOOLEAN}
    /\ pc = [t \in Threads |-> "idle"]
    /\ idx = [t \in Threads |-> 1]
    /\ obs = [t \in Threads |-> NoObs]
    /\ stats = [t \in Threads |-> NoStats]
    /\ log = [t \in Threads |-> <<>>]
    /\ probes = [t \in Threads |-> <<>>]
    /\ reads = [t \in Threads |-> <<>>]
    /\ exc = [t \in Threads |-> NONE]
    /\ outcome = [t \in Threads |-> NoOutcome]

\* get_stats is entered: the dict display starts with "success": True.
Call(t) ==
    /\ pc[t] = "idle"
    /\ pc' = [pc EXCEPT ![t] = "os"]
    /\ stats' = [stats EXCEPT ![t] = "success" :> TRUE]
    /\ UNCHANGED <<inst, startupLog, idx, obs, log, probes, reads, exc, outcome>>

\* "os": self._get_os_info()
OsInfo(t, P) ==
    /\ pc[t] = "os"
    /\ \E o \in P.os :
        LET r == get_os_info(o) IN
        /\ obs' = [obs EXCEPT ![t].os = o]
        /\ stats' = [stats EXCEPT ![t] = ("os" :> r.val) @@ @]
        /\ log' = [log EXCEPT ![t] = @ \o r.log]
    /\ pc' = [pc EXCEPT ![t] = "temp"]
    /\ idx' = [idx EXCEPT ![t] = 1]
    /\ UNCHANGED <<inst, startupLog, probes, reads, exc, outcome>>

\* "cpuTemp": self._get_cpu_temperature(), one turn of the loop: os.path.exists
TempProbe(t) ==
    /\ pc[t] = "temp"
    /\ \E b \in BOOLEAN :
        LET next == temp_after_probe(idx[t], b) IN
        /\ probes' = [probes EXCEPT ![t] = Append(@, idx[t])]
        /\ obs' = [obs EXCEPT ![t].exists = Append(@, b)]
        /\ pc' = [pc EXCEPT ![t] = next]
        /\ idx' = [idx EXCEPT ![t] = IF next = "temp" THEN @ + 1 ELSE @]
        /\ IF next = "cpu"
           THEN /\ stats' = [stats EXCEPT ![t] = ("cpuTemp" :> temp_not_found.val) @@ @]
                /\ log' = [log EXCEPT ![t] = @ \o temp_not_found.log]
           ELSE UNCHANGED <<stats, log>>
    /\ UNCHANGED <<inst, startupLog, reads, exc, outcome>>

\* "cpuTemp": self._get_cpu_temperature(), the candidate that exists is opened,
\* read and parsed.
TempRead(t, P) ==
    /\ pc[t] = "read"
    /\ \E f \in P.file :
        LET r == temp_read(f)
            next == temp_after_read(idx[t], f)
        IN
        /\ reads' = [reads EXCEPT ![t] = Append(@, idx[t])]
        /\ obs' = [obs EXCEPT ![t].file = f]
        /\ log' = [log EXCEPT ![t] = @ \o r.log]
        /\ pc' = [pc EXCEPT ![t] = IF next = "temp" /\ idx[t] >= Len(thermal_paths)
                                   THEN "cpu" ELSE next]
        /\ idx' = [idx EXCEPT ![t] = IF next = "temp" THEN @ + 1 ELSE @]
        /\ IF next = "temp" /\ idx[t] < Len(thermal_paths)
           THEN UNCHANGED stats
           ELSE stats' = [stats EXCEPT ![t] = ("cpuTemp" :> r.val) @@ @]
    /\ UNCHANGED <<inst, startupLog, probes, exc, outcome>>

\* "cpuUsage": self._get_cpu_usage()
CpuUsage(t, P) ==
    /\ pc[t] = "cpu"
    /\ \E c \in P.cpu :
        LET r == get_cpu_usage(c) IN
        /\ obs' = [obs EXCEPT ![t].cpu = c]
        /\ stats' = [stats EXCEPT ![t] = ("cpuUsage" :> r.val) @@ @]
        /\ log' = [log EXCEPT ![t] = @ \o r.log]
    /\ pc' = [pc EXCEPT ![t] = "mem"]
    /\ UNCHANGED <<inst, startupLog, idx, probes, reads, exc, outcome>>

\* "memoryUsage": self._get_memory_usage(), and return stats
MemoryUsage(t, P) ==
    /\ pc[t] = "mem"
    /\ \E m \in P.mem :
        LET r == get_memory_usage(m)
            ret == get_stats_try(stats[t].os, stats[t].cpuTemp, stats[t].cpuUsage, r.val)
        IN
        /\ obs' = [obs EXCEPT ![t].mem = m]
        /\ stats' = [stats EXCEPT ![t] = ("memoryUsage" :> r.val) @@ @]
        /\ log' = [log EXCEPT ![t] = @ \o r.log]
        /\ outcome' = [outcome EXCEPT ![t] = ret]
        /\ inst' = self_after_get_stats(inst, ret)
    /\ pc' = [pc EXCEPT ![t] = "done"]
    /\ UNCHANGED <<startupLog, idx, probes, reads, exc>>

\* An exception leaves the sub-query under way without being caught by the
\* sub-query's own except clause; get_stats's except clause takes it.
Escape(t, P) ==
    /\ pc[t] \in {"os", "temp", "read", "cpu", "mem"}
    /\ \E msg \in P.msgs :
        LET ret == get_stats_except(msg) IN
        /\ exc' = [exc EXCEPT ![t] = [msg |-> msg, at |-> pc[t]]]
        /\ outcome' = [outcome EXCEPT ![t] = ret]
        /\ inst' = self_after_get_stats(inst, ret)
    /\ log' = [log EXCEPT ![t] = Append(@, Error("stats"))]
    /\ pc' = [pc EXCEPT ![t] = "done"]
    /\ UNCHANGED <<startupLog, idx, obs, stats, probes, reads>>

\* The caller drops the report; the thread may call again.
Reset(t) ==
    /\ pc[t] = "done"
    /\ pc' = [pc EXCEPT ![t] = "idle"]
    /\ idx' = [idx EXCEPT ![t] = 1]
    /\ obs' = [obs EXCEPT ![t] = NoObs]
    /\ stats' = [stats EXCEPT ![t] = NoStats]
    /\ log' = [log EXCEPT ![t] = <<>>]
    /\ probes' = [probes EXCEPT ![t] = <<>>]
    /\ reads' = [reads EXCEPT ![t] = <<>>]
    /\ exc' = [exc EXCEPT ![t] = NONE]
    /\ outcome' = [outcome EXCEPT ![t] = NoOutcome]
    /\ UNCHANGED <<inst, startupLog>>

Step(t, P) ==
    \/ Call(t)
    \/ OsInfo(t, P)
    \/ TempProbe(t)
    \/ TempRead(t, P)
    \/ CpuUsage(t, P)
    \/ MemoryUsage(t, P)
    \/ Escape(t, P)
    \/ Reset(t)

\* One caller, every outcome of every source.
Next == Step(1, Wide)
Spec == Init /\ [][Next]_vars

\* Several callers on the one collector, interleaved at every step.
NextConc == \E t \in Threads : Step(t, Narrow)
SpecConc == Init /\ [][NextConc]_vars

-----------------------------------------------------------------------------
(* Properties *)

Done(t) == pc[t] = "done"
Report(t) == outcome[t].report
Escaped(t) == exc[t] # NONE

OsDone(t) == "os" \in DOMAIN stats[t]
TempDone(t) == "cpuTemp" \in DOMAIN stats[t]

OsOk(t) == obs[t].os.host.ok /\ obs[t].os.system.ok /\ obs[t].os.machine.ok
OverrideSet(t) == obs[t].os.override # <<>>

\* How _get_cpu_temperature ended.
TempNotFound(t) == TempDone(t) /\ obs[t].file = NONE
TempReadFailed(t) == obs[t].file # NONE /\ ~(obs[t].file.ok /\ obs[t].file.val.num)
TempReadOk(t) == obs[t].file # NONE /\ obs[t].file.ok /\ obs[t].file.val.num

Levels(t, src) ==
    LET mine == SelectSeq(log[t], LAMBDA l : l.src = src)
    IN  [k \in 1..Len(mine) |-> mine[k].level]

\* v tenths is a nearest tenth of m thousandths.
IsRounded(v, m) == 100 * v - m \in (0 - 50)..50

ReportKeys == {"success", "os", "cpuTemp", "cpuUsage", "memoryUsage"}
zero_memory == [used |-> 0, total |-> 0]

\* C1: every get_stats call that has ended has returned, not raised, a report
\* holding success, os.hostname, os.platform, os.arch, cpuTemp, a non-empty
\* cpuUsage, memoryUsage.used and memoryUsage.total, whichever sources failed.
C1_ReportComplete ==
    \A t \in Threads : Done(t) =>
        /\ outcome[t].kind = "returned"
        /\ ReportKeys \subseteq DOMAIN Report(t)
        /\ DOMAIN Report(t).os = {"hostname", "platform", "arch"}
        /\ Len(Report(t).cpuUsage) >= 1
        /\ DOMAIN Report(t).memoryUsage = {"used", "total"}

\* All four sources failed (the sensor file exists and cannot be read) and the
\* call has ended.
C1_Witness ==
    \E t \in Threads :
        /\ Done(t) /\ ~Escaped(t)
        /\ ~OsOk(t) /\ TempReadFailed(t) /\ ~obs[t].cpu.ok /\ ~obs[t].mem.ok

\* C2: a call in which no exception escaped a sub-query returns success = TRUE
\* and no error field, whichever sources failed; success = FALSE is returned
\* exactly by the calls in which an exception escaped.
C2_SuccessUnlessEscaped ==
    \A t \in Threads : Done(t) =>
        /\ Report(t).success = ~Escaped(t)
        /\ ~Escaped(t) => "error" \notin DOMAIN Report(t)

\* The identity, the sensor, the sampler and the memory query all failed in a
\* call that returned success = TRUE.
C2_Witness ==
    \E t \in Threads :
        /\ Done(t) /\ ~Escaped(t) /\ Report(t).success
        /\ ~OsOk(t) /\ TempNotFound(t) /\ ~obs[t].cpu.ok /\ ~obs[t].mem.ok

\* C3: in a report with success = TRUE each field is decided by its own source
\* alone: the measurement (rounded to a tenth for cpuTemp and cpuUsage) when
\* the source succeeded, the field's fallback when it failed.
C3_PerFieldDegradation ==
    \A t \in Threads : (Done(t) /\ Report(t).success) =>
        LET o == obs[t]
            r == Report(t)
        IN
        /\ r.os = IF OsOk(t)
                  THEN [hostname |-> IF OverrideSet(t) THEN o.os.override[1]
                                     ELSE o.os.host.val,
                        platform |-> o.os.system.val,
                        arch |-> o.os.machine.val]
                  ELSE unknown_os
        /\ IF TempReadOk(t) THEN IsRounded(r.cpuTemp, o.file.val.milli)
           ELSE r.cpuTemp = 0
        /\ IF o.cpu.ok
           THEN /\ Len(r.cpuUsage) = Len(o.cpu.val)
                /\ \A k \in 1..Len(o.cpu.val) : IsRounded(r.cpuUsage[k], o.cpu.val[k])
           ELSE r.cpuUsage = <<0>>
        /\ r.memoryUsage = IF o.mem.ok THEN o.mem.val ELSE zero_memory

\* Two sources failed and two succeeded in one report: the sensor read and the
\* sampler failed, the identity and the memory were measured.
C3_Witness ==
    \E t \in Threads :
        /\ Done(t) /\ Report(t).success
        /\ OsOk(t) /\ TempReadFailed(t) /\ ~obs[t].cpu.ok /\ obs[t].mem.ok
        /\ Report(t).memoryUsage = obs[t].mem.val
        /\ Report(t).cpuUsage = <<0>>

\* C4: a call in which an exception escaped a sub-query returns success =
\* FALSE, a non-empty error string and every field at its fallback value.
C4_FailureReport ==
    \A t \in Threads : (Done(t) /\ Escaped(t)) =>
        /\ Report(t).success = FALSE
        /\ Report(t).error # ""
        /\ Report(t).os = unknown_os
        /\ Report(t).cpuTemp = 0
        /\ Report(t).cpuUsage = <<0>>
        /\ Report(t).memoryUsage = zero_memory

\* C5: when no other identity read fails, os.hostname is the override when
\* PUBLIC_HOSTNAME is set, whatever socket.gethostname() does, and the
\* hostname socket.gethostname() returns when it is not set.
C5_HostnameOverride ==
    \A t \in Threads :
        (OsDone(t) /\ obs[t].os.system.ok /\ obs[t].os.machine.ok) =>
            /\ OverrideSet(t) => stats[t].os.hostname = obs[t].os.override[1]
            /\ (~OverrideSet(t) /\ obs[t].os.host.ok) =>
                   stats[t].os.hostname = obs[t].os.host.val

\* C6: the temperature query returns 0.0 with one warning and no error when no
\* candidate path exists, 0.0 with one error and no warning when the candidate
\* that exists cannot be read or parsed, and logs nothing when the read
\* succeeds.
C6_TemperatureDiagnostics ==
    \A t \in Threads : TempDone(t) =>
        /\ TempNotFound(t) =>
               stats[t].cpuTemp = 0 /\ Levels(t, "temp") = <<"warning">>
        /\ TempReadFailed(t) =>
               stats[t].cpuTemp = 0 /\ Levels(t, "temp") = <<"error">>
        /\ TempReadOk(t) => Levels(t, "temp") = <<>>

\* The second candidate exists and holds text that is no number.
C6_Witness ==
    \E t \in Threads :
        /\ TempDone(t)
        /\ obs[t].exists = <<FALSE, TRUE>>
        /\ obs[t].file = Ok(Garbage)
        /\ Levels(t, "temp") = <<"error">>

\* C7: the candidates are probed in their order, at most one is opened, the
\* second is opened only after the first was found missing, nothing is probed
\* or opened after a candidate was opened, and a failed read ends the query
\* with 0.0.
C7_FirstExistingOnly ==
    \A t \in Threads :
        /\ Len(reads[t]) <= 1
        /\ \A k \in 1..Len(probes[t]) : probes[t][k] = k
        /\ Len(probes[t]) = Len(obs[t].exists)
        /\ \A k \in 1..Len(reads[t]) :
               /\ reads[t][k] = Len(probes[t])
               /\ obs[t].exists[reads[t][k]]
               /\ \A j \in 1..(reads[t][k] - 1) : ~obs[t].exists[j]
        /\ (reads[t] # <<>>) => (TempDone(t) /\ pc[t] \notin {"temp", "read"})
        /\ TempReadFailed(t) => stats[t].cpuTemp = 0

\* The first candidate exists and its read fails: the query has ended with 0.0
\* and the second candidate was neither probed nor opened.
C7_Witness ==
    \E t \in Threads :
        /\ TempReadFailed(t) /\ TempDone(t)
        /\ probes[t] = <<1>> /\ reads[t] = <<1>>
        /\ stats[t].cpuTemp = 0

\* C8: when any of the three identity reads fails, the three os fields are all
\* "unknown", an error is logged and the call goes on; when none fails, none
\* of the fields is the fallback.
C8_IdentityAllOrNothing ==
    \A t \in Threads : OsDone(t) =>
        /\ ~OsOk(t) =>
               /\ stats[t].os = unknown_os
               /\ Levels(t, "os") = <<"error">>
               /\ (exc[t] # NONE => exc[t].at # "os")
        /\ OsOk(t) =>
               /\ UNKNOWN \notin {stats[t].os.hostname, stats[t].os.platform, stats[t].os.arch}
               /\ Levels(t, "os") = <<>>
        /\ (Done(t) /\ ~Escaped(t)) => Report(t).os = stats[t].os

\* The hostname and the architecture were read, the platform read failed, and
\* the report returned holds "unknown" three times.
C8_Witness ==
    \E t \in Threads :
        /\ Done(t) /\ ~Escaped(t)
        /\ obs[t].os.host.ok /\ ~obs[t].os.system.ok /\ obs[t].os.machine.ok
        /\ Report(t).os = unknown_os

\* C9: the temperature query returns 0.0 only when it logged a warning or an
\* error, for every integer a sensor file may hold.
C9_ZeroIsSentinel ==
    \A t \in Threads :
        (TempDone(t) /\ stats[t].cpuTemp = 0) => Levels(t, "temp") # <<>>

\* C10: get_stats leaves the instance as __init__ left it, every call that has
\* ended returned what one isolated call returns for the environment the call
\* read, and two calls that read the same environment returned equal reports,
\* however the calls of the threads were interleaved.
C10_Stateless ==
    /\ inst = init_self
    /\ \A t \in Threads : Done(t) => outcome[t] = get_stats(obs[t], exc[t])
    /\ \A t, u \in Threads :
           (Done(t) /\ Done(u) /\ obs[t] = obs[u] /\ exc[t] = exc[u]) =>
               outcome[t] = outcome[u]

\* Two threads have each ended a call, on different environments, with
\* different reports.
C10_Witness ==
    \E t, u \in Threads :
        /\ t # u /\ Done(t) /\ Done(u)
        /\ ~Escaped(t) /\ ~Escaped(u)
        /\ obs[t] # obs[u]
        /\ Report(t) # Report(u)

====
